---- MODULE Spec2Model ----
(***************************************************************************)
(* Assessment lifecycle of archetype-be: attempt admission (start), answer *)
(* submission with auto-grading (learner route routes/tests.js, candidate  *)
(* route candidateTests in its ORM and raw-SQL variants) and manual        *)
(* grading.  The relational tables test_attempts and test_answers are the  *)
(* state; every handler is split at the point where its transaction has    *)
(* finished reading and starts writing, so that requests interleave the    *)
(* way PostgreSQL READ COMMITTED lets them.                                *)
(*                                                                         *)
(* Scores are kept in hundredths of a percent (10000 = 100.00).            *)
(***************************************************************************)
EXTENDS Integers, Sequences, FiniteSets, Bags, TLC

\* ---------------------------------------------------------------- bounds
MaxInFlight == 2       \* handlers that can be between their reads and their writes
MaxRows == 2           \* rows of test_attempts
MaxAnswerRows == 2     \* rows of test_answers

\* ------------------------------------------------------------- SQL NULL
NULL == -1             \* NULL of a numeric column (all modelled numbers are >= 0)
NOTEXT == "null"       \* NULL of a text column

\* ------------------------------------------------------- fixed catalogue
\* users: id -> role
Role == <<"candidate", "learner", "admin", "supervisor">>
\* users: id -> supervisor_id (the supervisor supervises the learner only)
SupervisorId == <<NULL, 4, NULL, NULL>>
UserIds == DOMAIN Role
\* the users whose start calls are enumerated: the candidate, and the admin
\* (whom authorize refuses)
StartCallers == {1, 3}

\* tests: id -> row
Tests == <<
  [test_type |-> "multiple_choice", passing_score |-> 70, max_attempts |-> 1],
  [test_type |-> "written",         passing_score |-> 50, max_attempts |-> NULL] >>
TestIds == DOMAIN Tests

\* test_questions: id -> row
Questions == <<
  [test_id |-> 1, question_type |-> "multiple_choice", points |-> 1],
  [test_id |-> 1, question_type |-> "multiple_choice", points |-> 2],
  [test_id |-> 2, question_type |-> "written",         points |-> 2] >>
QuestionIds == DOMAIN Questions

\* question_options: id -> row
Options == <<
  [question_id |-> 1, is_correct |-> TRUE,  order_index |-> 0],
  [question_id |-> 1, is_correct |-> FALSE, order_index |-> 1],
  [question_id |-> 2, is_correct |-> TRUE,  order_index |-> 0],
  [question_id |-> 2, is_correct |-> FALSE, order_index |-> 1] >>
OptionIds == DOMAIN Options

\* tests.course_id, the seeded enrollments (completed: completed_at IS NOT
\* NULL) and the course_skills links
CourseOfTest == <<1, 2>>
Enrollments ==
  { [user_id |-> 1, course_id |-> 1, progress_percentage |-> 100, completed |-> TRUE],
    [user_id |-> 1, course_id |-> 2, progress_percentage |-> 100, completed |-> TRUE],
    [user_id |-> 2, course_id |-> 1, progress_percentage |-> 40,  completed |-> FALSE],
    [user_id |-> 3, course_id |-> 1, progress_percentage |-> 100, completed |-> TRUE] }
CourseSkills ==
  { [course_id |-> 1, skill_id |-> 1],
    [course_id |-> 2, skill_id |-> 1],
    [course_id |-> 2, skill_id |-> 2] }

\* an id that names no row of any table
NoSuchId == 1 + Len(Questions) + Len(Options)

VARIABLES
  attempts,     \* table test_attempts: sequence of rows, id = index
  answers,      \* table test_answers: bag of rows (the row id is never read)
  inflight,     \* bag of handlers that have done their reads and not yet written
  last,         \* the response most recently sent
  submitCount,  \* submitCount[a]: submit transactions committed on attempt a
  notifications, \* table notifications: bag of rows
  newTests,     \* rows of tests inserted by create test, in insertion order
  newQuestions, \* rows of test_questions inserted by create test
  newOptions,   \* rows of question_options inserted by create test
  userSkills,   \* table user_skills: <<user_id, skill_id>> -> row
  sessions,     \* table learning_sessions: sequence of rows, id = index
  clockIns,     \* bag of clock-in handlers between their SELECT and their INSERT
  users,        \* table users: id -> the columns role and supervisor_id
  enrollments   \* table enrollments: set of rows

vars == <<attempts, answers, inflight, last, submitCount, notifications,
          newTests, newQuestions, newOptions, userSkills,
          sessions, clockIns, users, enrollments>>

\* the tables the attempt handlers (start, submit, grade, pending grading)
\* never write
definitionVars == <<newTests, newQuestions, newOptions, userSkills,
                    sessions, clockIns, users, enrollments>>

\* the tables of the learning-session, user-management and course-progress
\* routes
platformVars == <<sessions, clockIns, users, enrollments>>

NoResponse == [code |-> 0, text |-> "none"]

\* ------------------------------------------------------------- helpers
RECURSIVE SumSet(_, _)
SumSet(S, f) ==
  IF S = {} THEN 0
  ELSE LET x == CHOOSE y \in S : TRUE IN f[x] + SumSet(S \ {x}, f)

\* the bag obtained by replacing every row r of bag B by f[r]
BagMap(B, f) ==
  LET D == DOMAIN B
      img == {f[r] : r \in D}
  IN [s \in img |-> SumSet({r \in D : f[r] = s}, B)]

\* a new handler may pass its reads while fewer than cap handlers are
\* between their reads and their writes
CanEnter(cap) == BagCardinality(inflight) < cap
StartsInFlight ==
  LET S == {h \in BagToSet(inflight) : h.op = "start"} IN SumSet(S, inflight)
Enter(h) == inflight' = inflight (+) SetToBag({h})
Leave(h) == inflight' = inflight (-) SetToBag({h})

\* JavaScript `x || d` for a numeric x that may be null/undefined/0
OrDefault(x, d) == IF x = NULL \/ x = 0 THEN d ELSE x

\* Math.max(0, x)
MathMax0(x) == IF x > 0 THEN x ELSE 0

\* authorize(...allowedRoles) middleware; req.user is the users row that
\* authenticateToken reads on every request
authorize(u, allowedRoles) == users[u].role \in allowedRoles

\* roles each route admits; route "L" is routes/tests.js, route "C" the
\* candidate tests router (ORM and raw-SQL variants behave alike)
Routes == {"L", "C"}
TakerRoles(route) == IF route = "L" THEN {"learner", "candidate"} ELSE {"candidate"}
GraderRoles == {"supervisor", "admin"}

\* SELECT COUNT(*) FROM test_attempts WHERE test_id = t AND user_id = u
AttemptCount(t, u) ==
  Cardinality({a \in DOMAIN attempts :
                 attempts[a].test_id = t /\ attempts[a].user_id = u})

\* variant: the stored max_attempts with no default
MaxAttemptsOf_NoDefault(t) == Tests[t].max_attempts

\* const maxAttempts = test.max_attempts || 3
MaxAttemptsOf(t) == OrDefault(Tests[t].max_attempts, 3)

\* res.status(code).json(...): the status code and the message or error text
Respond(code, text) == last' = [code |-> code, text |-> text]

\* the learning-session, users and enrollments tables before any request:
\* no session, the seeded users and enrollments
InitPlatform ==
  /\ sessions = <<>>
  /\ clockIns = EmptyBag
  /\ users = [u \in UserIds |-> [role |-> Role[u], supervisor_id |-> SupervisorId[u]]]
  /\ enrollments = Enrollments

\* ----------------------------------------------------------------- Init
Init ==
  /\ attempts = <<>>
  /\ answers = EmptyBag
  /\ inflight = EmptyBag
  /\ last = NoResponse
  /\ submitCount = <<>>
  /\ notifications = EmptyBag
  /\ newTests = <<>>
  /\ newQuestions = <<>>
  /\ newOptions = <<>>
  /\ userSkills = {}
  /\ InitPlatform

\* ------------------------------------------------- POST /:id/start
\* First half of the handler: authorization, test lookup, count query and
\* the quota check.  A rejection ends the handler in this step.
StartCount(cap, route, u, t) ==
  /\ UNCHANGED definitionVars
  /\ UNCHANGED <<attempts, answers, submitCount, notifications>>
  /\ IF ~authorize(u, TakerRoles(route))
       THEN Respond(403, "Insufficient permissions") /\ UNCHANGED inflight
     ELSE IF t \notin TestIds
       THEN Respond(404, "Test not found") /\ UNCHANGED inflight
     ELSE IF AttemptCount(t, u) >= MaxAttemptsOf(t)
       THEN Respond(400, "Maximum attempts reached") /\ UNCHANGED inflight
     ELSE /\ CanEnter(cap)
          /\ Len(attempts) + StartsInFlight < MaxRows
          /\ Enter([op |-> "start", route |-> route, user |-> u, test |-> t,
                    count |-> AttemptCount(t, u)])
          /\ UNCHANGED last

\* the row the INSERT of start creates
NewAttempt(t, u, count) ==
  [test_id |-> t, user_id |-> u, status |-> "in_progress",
   attempt_number |-> count + 1, score |-> NULL, submitted_at |-> FALSE,
   graded_at |-> FALSE, graded_by |-> NULL, feedback |-> NOTEXT]

\* ids in ascending order (ORDER BY of the question and option queries:
\* the catalogue's order_index grows with the id)
RECURSIVE InOrder(_)
InOrder(S) ==
  IF S = {} THEN <<>>
  ELSE LET m == CHOOSE x \in S : \A y \in S : x <= y
       IN <<m>> \o InOrder(S \ {m})

\* variant: the option row with every column
OptionView_All(options, o) ==
  [id |-> o, order_index |-> options[o].order_index,
   is_correct |-> options[o].is_correct]

\* SELECT id, option_text, order_index FROM question_options
OptionView(options, o) == [id |-> o, order_index |-> options[o].order_index]

\* a question as the read and start responses carry it: options are
\* attached to multiple_choice questions only
QuestionView(options, q) ==
  IF Questions[q].question_type = "multiple_choice"
    THEN LET ids == InOrder({o \in DOMAIN options : options[o].question_id = q})
         IN [id |-> q, question_type |-> Questions[q].question_type,
             points |-> Questions[q].points,
             options |-> [k \in DOMAIN ids |-> OptionView(options, ids[k])]]
    ELSE [id |-> q, question_type |-> Questions[q].question_type,
          points |-> Questions[q].points]

\* questionsWithOptions of a test, over the given question_options table
QuestionsWithOptions(options, t) ==
  LET ids == InOrder({q \in QuestionIds : Questions[q].test_id = t})
  IN [k \in DOMAIN ids |-> QuestionView(options, ids[k])]

\* res.json({attempt, questions, test_info}) of the candidate start
StartResponse(options, h) ==
  [code |-> 200, text |-> "attempt",
   attempt |-> NewAttempt(h.test, h.user, h.count),
   questions |-> QuestionsWithOptions(options, h.test)]

\* Second half: INSERT INTO test_attempts ... attempt_number = count + 1;
\* the learner route answers 201 with a message, the candidate route 200
\* with the attempt and the questions
StartInsert(h) ==
  /\ UNCHANGED definitionVars
  /\ h.op = "start"
  /\ attempts' = Append(attempts, NewAttempt(h.test, h.user, h.count))
  /\ submitCount' = Append(submitCount, 0)
  /\ Leave(h)
  /\ IF h.route = "L" THEN Respond(201, "Test attempt started")
                      ELSE last' = StartResponse(Options, h)
  /\ UNCHANGED <<answers, notifications>>

\* ------------------------------------------------------- request bodies
\* an entry of the answers[] body of submit
Ans(q, o) == [question_id |-> q, selected_option_id |-> o]

\* the answers[] bodies submitted (body('answers').isArray({ min: 1 }))
SubmitBodies ==
  { <<Ans(1, 1), Ans(2, 3)>>,         \* test 1, every answer correct
    <<Ans(1, 2), Ans(2, 4)>>,         \* test 1, no answer correct
    <<Ans(1, 1), Ans(2, 4)>>,         \* test 1, 1 of 3 points
    <<Ans(1, 1), Ans(2, NULL)>>,      \* question 2 left unselected
    <<Ans(3, NULL)>>,                 \* test 2, a written answer
    <<Ans(1, 1), Ans(NoSuchId, NULL)>> }   \* a question that does not exist

\* an entry of the answers[] body of grade
Gr(q, p, f) == [question_id |-> q, points_awarded |-> p, feedback |-> f]

\* the grade requests: answers[] and the optional overall feedback
GradeCall(body, f) == [answers |-> body, feedback |-> f]
GradeCalls ==
  { GradeCall(<<Gr(1, 1, "good"), Gr(2, 0, NOTEXT)>>, "well done"),
    GradeCall(<<Gr(3, 1, "good")>>, NOTEXT),
    GradeCall(<<Gr(3, 5, NOTEXT)>>, "well done"),  \* more than the question is worth
    GradeCall(<<Gr(NoSuchId, 1, NOTEXT)>>, NOTEXT) } \* no such question

\* the narrower requests of the specification in which handlers interleave
RaceSubmitBodies == { <<Ans(1, 1)>>, <<Ans(3, NULL)>> }
RaceGradeCalls == { GradeCall(<<Gr(3, 1, "good")>>, "well done") }

\* ------------------------------------------------------------- scoring
\* variant: the percentage rounded to a whole number, as Math.round does
ToFixed2_Whole(earned, total) == 100 * ((200 * earned + total) \div (2 * total))

\* (earned / total * 100).toFixed(2), in hundredths of a percent
ToFixed2(earned, total) == (20000 * earned + total) \div (2 * total)

\* Math.round((earned / total) * 100), a whole percentage
MathRound(earned, total) == (200 * earned + total) \div (2 * total)

\* `answer.selected_option_id` used as a condition
Truthy(x) == x # NULL /\ x # 0

\* auto-grade rule of both submit handlers for one answer whose question
\* exists: null unless the question is multiple_choice with a selection
PointsAwarded(entry) ==
  LET q == Questions[entry.question_id] IN
  IF q.question_type = "multiple_choice" /\ Truthy(entry.selected_option_id)
    THEN IF entry.selected_option_id \in OptionIds
              /\ Options[entry.selected_option_id].is_correct
           THEN q.points ELSE 0
    ELSE NULL

AnswerRow(a, entry) ==
  [attempt_id |-> a, question_id |-> entry.question_id,
   selected_option_id |-> entry.selected_option_id,
   points_awarded |-> PointsAwarded(entry), feedback |-> NOTEXT]

\* the answers loop: running totals and the rows inserted so far.
\* skipMissing: the candidate route skips an answer whose question does not
\* exist (`continue`); the learner route dereferences it and throws.
RECURSIVE AnswerLoop(_, _, _, _)
AnswerLoop(a, body, skipMissing, acc) ==
  IF body = <<>> \/ acc.threw THEN acc
  ELSE LET entry == Head(body) IN
    IF entry.question_id \notin QuestionIds
      THEN IF skipMissing
             THEN AnswerLoop(a, Tail(body), skipMissing, acc)
             ELSE [acc EXCEPT !.threw = TRUE]
      ELSE LET pa == PointsAwarded(entry) IN
        AnswerLoop(a, Tail(body), skipMissing,
          [total |-> acc.total + Questions[entry.question_id].points,
           earned |-> acc.earned + (IF pa = NULL THEN 0 ELSE pa),
           autoGradable |-> acc.autoGradable /\ pa # NULL,
           rows |-> acc.rows (+) SetToBag({AnswerRow(a, entry)}),
           threw |-> FALSE])

LoopStart ==
  [total |-> 0, earned |-> 0, autoGradable |-> TRUE, rows |-> EmptyBag,
   threw |-> FALSE]

\* --------------------------------- POST /attempts/:attemptId/submit (L)
\* --------------------------------- POST /:testId/submit (C)
\* variant: only a graded attempt is refused
SubmitAllowed_NotGraded(status) == status # "graded"

\* if (attempt.status !== 'in_progress') -> 400
SubmitAllowed(status) == status = "in_progress"

\* First half: authorization, attempt lookup (id and owner) and the status
\* check.
SubmitCheck(cap, route, u, a) ==
  /\ UNCHANGED definitionVars
  /\ UNCHANGED <<attempts, answers, submitCount, notifications>>
  /\ IF ~authorize(u, TakerRoles(route))
       THEN Respond(403, "Insufficient permissions") /\ UNCHANGED inflight
     ELSE IF a \notin DOMAIN attempts \/ attempts[a].user_id # u
       THEN /\ IF route = "L" THEN Respond(404, "Attempt not found")
                              ELSE Respond(404, "Test attempt not found")
            /\ UNCHANGED inflight
     ELSE IF ~SubmitAllowed(attempts[a].status)
       THEN Respond(400, "Test already submitted") /\ UNCHANGED inflight
     ELSE /\ CanEnter(cap)
          /\ Enter([op |-> "submit", route |-> route, attempt |-> a])
          /\ UNCHANGED last

\* attempt row after the UPDATE of the learner route
LearnerUpdate(row, testType, r) ==
  [row EXCEPT !.status = "submitted",
              !.submitted_at = TRUE,
              !.score = IF testType = "multiple_choice"
                          THEN ToFixed2(r.earned, r.total) ELSE NULL,
              !.graded_at = (testType = "multiple_choice")]

\* attempt row after attempt.update of the candidate route
CandidateUpdate(row, passingScore, r) ==
  IF r.autoGradable /\ r.total > 0
    THEN LET score == MathRound(r.earned, r.total) IN
         [row EXCEPT !.status = "graded",
                     !.submitted_at = TRUE,
                     !.score = 100 * score,
                     !.graded_at = TRUE,
                     !.feedback = IF score >= passingScore
                                    THEN "passed" ELSE "failed"]
    ELSE [row EXCEPT !.status = "submitted",
                     !.submitted_at = TRUE,
                     !.score = NULL,
                     !.graded_at = FALSE,
                     !.feedback = "awaiting review"]

\* score !== null && score >= passingScore (the score in hundredths)
Passed(score, passingScore) ==
  score # NULL /\ score >= 100 * passingScore

\* the notification row the candidate route creates once it has committed;
\* status is the argument of notifyCandidateStatus
SubmitNotification(u, row, passingScore) ==
  IF row.status = "graded"
    THEN [user_id |-> u, notification_type |-> "test_result",
          status |-> IF Passed(row.score, passingScore) THEN "passed"
                                                         ELSE "failed"]
    ELSE [user_id |-> u, notification_type |-> "test_submitted",
          status |-> "pending"]

\* message of the 200 response of a submit
SubmitMessage(route, testType, r) ==
  IF route = "L"
    THEN IF testType = "multiple_choice"
           THEN "Test submitted and graded"
           ELSE "Test submitted, awaiting manual grading"
    ELSE IF r.autoGradable THEN "Test graded successfully"
                           ELSE "Test submitted for review"

\* what can go wrong while a submit handler writes: nothing, an error of
\* the store on a statement of the transaction, or an error of the
\* notification step that follows COMMIT (candidate route)
Faults == {"none", "store", "notify"}

\* variant: the rows written before the failure stay
AfterRollback_Keep(before, partial) == partial

\* ROLLBACK in the catch block: every statement of the transaction ran on
\* the transaction's own connection, so the table is as it was at BEGIN
AfterRollback(before, partial) == before

\* variant: the rollback of the catch block undoes the committed writes
AfterCommit_Undone(committed, before) == before

\* t.rollback() / ROLLBACK in the catch block once COMMIT has succeeded:
\* the transaction is finished, the committed tables stay
AfterCommit(committed, before) == committed

\* the test row a submit handler reads: of the attempt (learner route) or
\* of the URL (candidate route)
SubmitTest(h, urlTest) ==
  IF h.route = "L" THEN attempts[h.attempt].test_id ELSE urlTest

\* the transaction of a submit fails before COMMIT
FailsInTransaction(h, body, urlTest, fault) ==
  \/ SubmitTest(h, urlTest) \notin TestIds
  \/ AnswerLoop(h.attempt, body, h.route = "C", LoopStart).threw
  \/ fault = "store"

\* the attempts table once the transaction of a submit has committed
CommittedAttempts(h, test, r) ==
  [attempts EXCEPT ![h.attempt] =
     IF h.route = "L"
       THEN LearnerUpdate(@, Tests[test].test_type, r)
       ELSE CandidateUpdate(@, OrDefault(Tests[test].passing_score, 70), r)]

\* Second half: the test lookup, the answers loop, the attempt UPDATE and
\* COMMIT, then (candidate route) the notification and the response.  An
\* exception before COMMIT rolls everything back (500).  An exception of
\* the notification step reaches the same catch block after COMMIT: the
\* raw-SQL variant answers 500, the ORM variant's t.rollback() throws on
\* the finished transaction and no response is sent.
SubmitWrite(h, body, urlTest, fault) ==
  /\ UNCHANGED definitionVars
  /\ h.op = "submit"
  /\ fault = "notify" => h.route = "C"
  /\ Leave(h)
  /\ LET a == h.attempt
         test == SubmitTest(h, urlTest)
         r == AnswerLoop(a, body, h.route = "C", LoopStart)
     IN IF FailsInTransaction(h, body, urlTest, fault)
          THEN /\ Respond(500, "Failed to submit test")
               /\ answers' = AfterRollback(answers,
                    IF test \in TestIds THEN answers (+) r.rows ELSE answers)
               /\ UNCHANGED <<attempts, submitCount, notifications>>
          ELSE /\ BagCardinality(answers (+) r.rows) <= MaxAnswerRows
               /\ submitCount' = [submitCount EXCEPT ![a] = @ + 1]
               /\ IF fault = "notify"
                    THEN /\ answers' = AfterCommit(answers (+) r.rows, answers)
                         /\ attempts' = AfterCommit(CommittedAttempts(h, test, r),
                                                    attempts)
                         /\ UNCHANGED notifications
                         /\ \/ Respond(500, "Failed to submit test")
                            \/ UNCHANGED last
                    ELSE /\ answers' = answers (+) r.rows
                         /\ attempts' = CommittedAttempts(h, test, r)
                         /\ notifications' =
                              IF h.route = "L" THEN notifications
                              ELSE notifications (+) SetToBag({
                                     SubmitNotification(attempts[a].user_id,
                                       attempts'[a],
                                       OrDefault(Tests[test].passing_score, 70))})
                         /\ IF h.route = "L"
                              THEN Respond(200,
                                     SubmitMessage(h.route, Tests[test].test_type, r))
                              ELSE last' =
                                     [code |-> 200,
                                      text |-> SubmitMessage(h.route,
                                                 Tests[test].test_type, r),
                                      passed |-> Passed(attempts'[a].score,
                                                   OrDefault(Tests[test].passing_score, 70))]

\* ------------------------------------ POST /attempts/:attemptId/grade
\* if (attempt.status !== 'submitted') -> 400
GradeAllowed(status) == status = "submitted"

\* First half: authorization, attempt lookup and the status check.
GradeCheck(cap, g, a) ==
  /\ UNCHANGED definitionVars
  /\ UNCHANGED <<attempts, answers, submitCount, notifications>>
  /\ IF ~authorize(g, GraderRoles)
       THEN Respond(403, "Insufficient permissions") /\ UNCHANGED inflight
     ELSE IF a \notin DOMAIN attempts
       THEN Respond(404, "Attempt not found") /\ UNCHANGED inflight
     ELSE IF ~GradeAllowed(attempts[a].status)
       THEN Respond(400, "Test not in submitted state") /\ UNCHANGED inflight
     ELSE /\ CanEnter(cap)
          /\ Enter([op |-> "grade", grader |-> g, attempt |-> a])
          /\ UNCHANGED last

\* UPDATE test_answers SET points_awarded, feedback
\*  WHERE attempt_id = a AND question_id = entry.question_id
UpdateAnswers(table, a, entry) ==
  BagMap(table, [r \in DOMAIN table |->
    IF r.attempt_id = a /\ r.question_id = entry.question_id
      THEN [r EXCEPT !.points_awarded = entry.points_awarded,
                     !.feedback = entry.feedback]
      ELSE r])

\* the points loop of grade: running totals and the answers table
RECURSIVE GradeLoop(_, _, _)
GradeLoop(a, body, acc) ==
  IF body = <<>> \/ acc.threw THEN acc
  ELSE LET entry == Head(body) IN
    IF entry.question_id \notin QuestionIds
      THEN [acc EXCEPT !.threw = TRUE]
      ELSE GradeLoop(a, Tail(body),
             [total |-> acc.total + Questions[entry.question_id].points,
              earned |-> acc.earned + OrDefault(entry.points_awarded, 0),
              table |-> UpdateAnswers(acc.table, a, entry),
              threw |-> FALSE])

\* Second half: the points loop, the attempt UPDATE and COMMIT; an
\* exception rolls everything back (500).
GradeWrite(h, call) ==
  /\ UNCHANGED definitionVars
  /\ h.op = "grade"
  /\ Leave(h)
  /\ UNCHANGED <<submitCount, notifications>>
  /\ LET a == h.attempt
         r == GradeLoop(a, call.answers,
                [total |-> 0, earned |-> 0, table |-> answers, threw |-> FALSE])
     IN IF r.threw
          THEN Respond(500, "Failed to grade test") /\ UNCHANGED <<attempts, answers>>
          ELSE /\ answers' = r.table
               /\ attempts' = [attempts EXCEPT ![a] =
                    [@ EXCEPT !.status = "graded",
                              !.score = ToFixed2(r.earned, r.total),
                              !.graded_at = TRUE,
                              !.graded_by = h.grader,
                              !.feedback = call.feedback]]
               /\ Respond(200, "Test graded successfully")

\* every handler step, over the given request bodies
NextOf(cap, submitBodies, gradeCalls, faults) ==
  \/ \E route \in Routes, u \in StartCallers, t \in TestIds \cup {NoSuchId} :
        StartCount(cap, route, u, t)
  \/ \E h \in BagToSet(inflight) : StartInsert(h)
  \/ \E route \in Routes, u \in UserIds, a \in 1..MaxRows :
        SubmitCheck(cap, route, u, a)
  \/ \E h \in BagToSet(inflight), body \in submitBodies,
        urlTest \in TestIds \cup {NoSuchId}, fault \in faults :
        SubmitWrite(h, body, urlTest, fault)
  \/ \E g \in UserIds, a \in 1..MaxRows : GradeCheck(cap, g, a)
  \/ \E h \in BagToSet(inflight), call \in gradeCalls : GradeWrite(h, call)

\* handlers interleave: up to MaxInFlight of them between reads and writes
Next == NextOf(MaxInFlight, RaceSubmitBodies, RaceGradeCalls, {"none"})
Spec == Init /\ [][Next]_vars

\* one request at a time, over the wider request bodies
NextSeq == NextOf(1, SubmitBodies, GradeCalls, Faults)
SpecSeq == Init /\ [][NextSeq]_vars

\* ------------------------------------------------ GET /pending/grading
\* WHERE ta.status = 'submitted' AND t.test_type != 'multiple_choice'
\* (the joined user, test and course rows exist for every attempt)
PendingRows ==
  {a \in DOMAIN attempts :
     /\ attempts[a].status = "submitted"
     /\ Tests[attempts[a].test_id].test_type # "multiple_choice"}

\* the handler: authorize, the query, the list as the response
PendingGrading(g) ==
  /\ UNCHANGED definitionVars
  /\ UNCHANGED <<attempts, answers, inflight, submitCount, notifications>>
  /\ IF ~authorize(g, GraderRoles)
       THEN Respond(403, "Insufficient permissions")
       ELSE last' = [code |-> 200, text |-> "pending_tests",
                     rows |-> PendingRows]

\* one request at a time, with the pending-grading query among them
NextPending ==
  \/ NextSeq
  \/ \E g \in UserIds : PendingGrading(g)
SpecPending == Init /\ [][NextPending]_vars

\* ------------------------------------------------ POST / (create test)
MaxNewTests == 3       \* tests created by create test

\* request bodies of create test; an absent optional field is NULL / NOTEXT,
\* absent options are the empty list (the loop over them does nothing)
Opt(text, c) == [option_text |-> text, is_correct |-> c]
Qn(text, type, points, options) ==
  [question_text |-> text, question_type |-> type, points |-> points,
   options |-> options]
CreateBody(title, type, questions) ==
  [title |-> title, test_type |-> type, passing_score |-> NULL,
   max_attempts |-> NULL, questions |-> questions]
CreateBodies ==
  { CreateBody("quiz", "multiple_choice",
      <<Qn("first", NOTEXT, NULL, <<Opt("yes", TRUE), Opt("no", FALSE)>>),
        Qn("second", "written", 2, <<>>)>>),
    CreateBody("quiz", "multiple_choice",
      <<Qn("only", NOTEXT, 3, <<Opt("no", FALSE), Opt("yes", TRUE)>>)>>),
    CreateBody("essay", "written", <<Qn("essay", NOTEXT, NULL, <<>>)>>),
    CreateBody("quiz", "oral", <<Qn("first", NOTEXT, NULL, <<>>)>>),
    CreateBody("quiz", "coding", <<>>),
    CreateBody("", "written", <<Qn("first", NOTEXT, 1, <<>>)>>) }

\* the express-validator chain: title not empty, test_type one of the three
\* types, questions a non-empty array (course_id is taken to be an integer)
ValidCreate(body) ==
  /\ body.title # ""
  /\ body.test_type \in {"multiple_choice", "written", "coding"}
  /\ Len(body.questions) >= 1

\* the INSERT of one question followed by the INSERTs of its options
QuestionStmts(testId, qid, i, q, testType) ==
  LET type == IF q.question_type = NOTEXT THEN testType ELSE q.question_type
  IN <<[kind |-> "question",
        row |-> [id |-> qid, test_id |-> testId,
                 question_text |-> q.question_text, question_type |-> type,
                 points |-> OrDefault(q.points, 1), order_index |-> i]]>>
     \o (IF type = "multiple_choice"
           THEN [j \in 1..Len(q.options) |->
                   [kind |-> "option",
                    row |-> [question_id |-> qid,
                             option_text |-> q.options[j].option_text,
                             is_correct |-> q.options[j].is_correct,
                             order_index |-> j - 1]]]
           ELSE <<>>)

\* the INSERTs of the question loop, in the order the handler issues them
RECURSIVE TreeStmts(_, _, _, _, _)
TreeStmts(testId, qid, i, qs, testType) ==
  IF qs = <<>> THEN <<>>
  ELSE QuestionStmts(testId, qid, i, Head(qs), testType)
         \o TreeStmts(testId, qid + 1, i + 1, Tail(qs), testType)

\* every INSERT of one create call: the test row, then the question loop
CreateStmts(body, u) ==
  LET testId == Len(Tests) + Len(newTests) + 1
      qid == Len(Questions) + Len(newQuestions) + 1
  IN <<[kind |-> "test",
        row |-> [id |-> testId, test_type |-> body.test_type,
                 passing_score |-> OrDefault(body.passing_score, 70),
                 max_attempts |-> OrDefault(body.max_attempts, 3),
                 created_by |-> u]]>>
     \o TreeStmts(testId, qid, 0, body.questions, body.test_type)

\* the rows of one table among the statements
RowsOfKind(stmts, kind) ==
  LET sel == SelectSeq(stmts, LAMBDA st : st.kind = kind)
  IN [k \in 1..Len(sel) |-> sel[k].row]

\* the handler: authorize('admin'), BEGIN, validation (400), the INSERTs,
\* COMMIT (201); an INSERT that fails (the failAt-th; 0: none fails) ends in
\* the catch block: ROLLBACK and 500
CreateTest(u, body, failAt) ==
  /\ UNCHANGED platformVars
  /\ UNCHANGED <<attempts, answers, inflight, submitCount, notifications,
                 userSkills>>
  /\ IF ~authorize(u, {"admin"})
       THEN /\ Respond(403, "Insufficient permissions")
            /\ UNCHANGED <<newTests, newQuestions, newOptions>>
     ELSE IF ~ValidCreate(body)
       THEN /\ Respond(400, "validation errors")
            /\ UNCHANGED <<newTests, newQuestions, newOptions>>
     ELSE LET stmts == CreateStmts(body, u)
              fails == failAt \in 1..Len(stmts)
              done == IF fails THEN SubSeq(stmts, 1, failAt - 1) ELSE stmts
              T == newTests \o RowsOfKind(done, "test")
              Q == newQuestions \o RowsOfKind(done, "question")
              O == newOptions \o RowsOfKind(done, "option")
          IN IF fails
               THEN /\ Respond(500, "Failed to create test")
                    /\ newTests' = AfterRollback(newTests, T)
                    /\ newQuestions' = AfterRollback(newQuestions, Q)
                    /\ newOptions' = AfterRollback(newOptions, O)
               ELSE /\ Len(newTests) < MaxNewTests
                    /\ Respond(201, "Test created successfully")
                    /\ newTests' = T
                    /\ newQuestions' = Q
                    /\ newOptions' = O

\* the longest statement list of a create body
MaxStmts == 4

\* ------------------------------------ GET /:id of a test create wrote
\* variant: rows by descending order_index
RECURSIVE ByOrderIndex_Desc(_)
ByOrderIndex_Desc(rows) ==
  IF rows = <<>> THEN <<>>
  ELSE LET k == CHOOSE i \in DOMAIN rows :
                  \A j \in DOMAIN rows :
                    \/ rows[i].order_index > rows[j].order_index
                    \/ rows[i].order_index = rows[j].order_index /\ i <= j
       IN <<rows[k]>>
            \o ByOrderIndex_Desc(SubSeq(rows, 1, k - 1)
                                   \o SubSeq(rows, k + 1, Len(rows)))

\* ORDER BY order_index (rows of equal order_index keep their table order;
\* one create call gives the rows of a test, or of a question, distinct ones)
RECURSIVE ByOrderIndex(_)
ByOrderIndex(rows) ==
  IF rows = <<>> THEN <<>>
  ELSE LET k == CHOOSE i \in DOMAIN rows :
                  \A j \in DOMAIN rows :
                    \/ rows[i].order_index < rows[j].order_index
                    \/ rows[i].order_index = rows[j].order_index /\ i <= j
       IN <<rows[k]>>
            \o ByOrderIndex(SubSeq(rows, 1, k - 1)
                              \o SubSeq(rows, k + 1, Len(rows)))

\* SELECT id, option_text, order_index FROM question_options
\*   WHERE question_id = q ORDER BY order_index  (the id is the position in
\* the table, after the catalogue's options)
OptionsOfQuestion(options, q) ==
  LET rows == [k \in DOMAIN options |->
                 [id |-> Len(Options) + k,
                  question_id |-> options[k].question_id,
                  option_text |-> options[k].option_text,
                  order_index |-> options[k].order_index]]
      mine == ByOrderIndex(SelectSeq(rows, LAMBDA r : r.question_id = q))
  IN [k \in DOMAIN mine |->
        [id |-> mine[k].id, option_text |-> mine[k].option_text,
         order_index |-> mine[k].order_index]]

\* SELECT * FROM test_questions WHERE test_id = t ORDER BY order_index, with
\* q.options attached to the multiple_choice questions
QuestionsOfTest(questions, options, t) ==
  LET mine == ByOrderIndex(SelectSeq(questions, LAMBDA q : q.test_id = t))
  IN [k \in DOMAIN mine |->
        IF mine[k].question_type = "multiple_choice"
          THEN [id |-> mine[k].id, test_id |-> t,
                question_text |-> mine[k].question_text,
                question_type |-> mine[k].question_type,
                points |-> mine[k].points,
                order_index |-> mine[k].order_index,
                options |-> OptionsOfQuestion(options, mine[k].id)]
          ELSE mine[k]]

\* ids create can have given to a test
CreatedIds == {Len(Tests) + k : k \in 1..MaxNewTests}

\* the handler over the tables create writes: no attempt exists on such a
\* test, so attempts is empty and every attempt remains
ReadCreated(u, t) ==
  /\ UNCHANGED platformVars
  /\ UNCHANGED <<attempts, answers, inflight, submitCount, notifications,
                 userSkills, newTests, newQuestions, newOptions>>
  /\ IF \A k \in DOMAIN newTests : newTests[k].id # t
       THEN Respond(404, "Test not found")
       ELSE LET test == newTests[CHOOSE k \in DOMAIN newTests : newTests[k].id = t]
            IN last' = [code |-> 200, text |-> "test", test |-> test,
                        questions |-> QuestionsOfTest(newQuestions, newOptions, t),
                        attempts |-> {},
                        attempts_remaining |-> MathMax0(OrDefault(test.max_attempts, 3))]

NextCreate ==
  \/ \E u \in UserIds, body \in CreateBodies, failAt \in 0..MaxStmts :
       CreateTest(u, body, failAt)
  \/ \E u \in UserIds, t \in CreatedIds : ReadCreated(u, t)
SpecCreate == Init /\ [][NextCreate]_vars

\* ------------------------------------------- POST /calculate/:userId
\* const supervisorRating = 3.5, in tenths
SupervisorRatingTenths == 35

\* A number the handler holds as a float is an exact fraction num / den
\* (den > 0); percentages and levels are counted in hundredths.
Rat(num, den) == [num |-> num, den |-> den]
AddRat(x, y) == Rat(x.num * y.den + y.num * x.den, x.den * y.den)

\* x.toFixed(2) of the fraction (already in hundredths): nearest integer,
\* halves away from zero
ToFixedRat(x) ==
  IF x.num >= 0 THEN (2 * x.num + x.den) \div (2 * x.den)
  ELSE -((2 * (-x.num) + x.den) \div (2 * x.den))

\* skillsData: the (skill, course) rows of the courses the user completed
SkillsData(u) ==
  {cs \in CourseSkills :
     \E e \in enrollments :
       e.user_id = u /\ e.course_id = cs.course_id /\ e.completed}

\* data.courses of one skill
CoursesOfSkill(u, s) == {cs.course_id : cs \in {d \in SkillsData(u) : d.skill_id = s}}

\* the graded attempts of the user on tests of a course that AVG counts
\* (AVG skips a NULL score)
GradedOf(u, c) ==
  {a \in DOMAIN attempts :
     /\ attempts[a].user_id = u
     /\ attempts[a].status = "graded"
     /\ attempts[a].score # NULL
     /\ CourseOfTest[attempts[a].test_id] = c}

\* testAvgMap[cid] || 0: AVG(ta.score) of the course, 0 when the course has
\* no row in testAverages
TestScore(u, c) ==
  LET G == GradedOf(u, c)
  IN IF G = {} THEN Rat(0, 1)
     ELSE Rat(SumSet(G, [a \in G |-> attempts[a].score]), Cardinality(G))

\* testScores.reduce((sum, score) => sum + score, 0)
RECURSIVE TestScoreSum(_, _)
TestScoreSum(u, C) ==
  IF C = {} THEN Rat(0, 1)
  ELSE LET c == CHOOSE x \in C : TRUE
       IN AddRat(TestScore(u, c), TestScoreSum(u, C \ {c}))

\* testAverage = sum / testScores.length
TestAverage(u, C) ==
  LET sum == TestScoreSum(u, C) IN Rat(sum.num, sum.den * Cardinality(C))

\* rawScore = (coursesCompleted * (testAverage / 100) * supervisorRating) / 3
RawScore(coursesCompleted, testAverage) ==
  Rat(coursesCompleted * testAverage.num * SupervisorRatingTenths,
      testAverage.den * 100 * 10 * 3)

\* variant: the level without the upper clamp
Level_NoClamp(rawScore) == Rat(rawScore.num * 5, rawScore.den)

\* level = Math.min(5, rawScore * 5)
Level(rawScore) ==
  IF rawScore.num * 5 >= 500 * rawScore.den THEN Rat(500, 1)
  ELSE Rat(rawScore.num * 5, rawScore.den)

\* the row the upsert writes for one skill
SkillRow(u, s) ==
  LET C == CoursesOfSkill(u, s)
      coursesCompleted == Cardinality(C)
      testAverage == TestAverage(u, C)
  IN [user_id |-> u, skill_id |-> s,
      level |-> ToFixedRat(Level(RawScore(coursesCompleted, testAverage))),
      courses_completed |-> coursesCompleted,
      test_average |-> ToFixedRat(testAverage),
      supervisor_rating |-> SupervisorRatingTenths]

\* variant: on conflict the new level is added to the stored one
Upsert_Accumulate(table, rows) ==
  {r \in table :
     ~\E n \in rows : n.user_id = r.user_id /\ n.skill_id = r.skill_id}
  \cup {[n EXCEPT !.level =
            @ + SumSet({r \in table : r.user_id = n.user_id
                                       /\ r.skill_id = n.skill_id},
                       [r \in table |-> r.level])] : n \in rows}

\* INSERT ... ON CONFLICT (user_id, skill_id) DO UPDATE
Upsert(table, rows) ==
  {r \in table :
     ~\E n \in rows : n.user_id = r.user_id /\ n.skill_id = r.skill_id}
  \cup rows

\* the handler: authorize("supervisor", "admin"), the two queries, one upsert
\* per skill, commit
Recalculate(g, u) ==
  /\ UNCHANGED platformVars
  /\ UNCHANGED <<attempts, answers, inflight, submitCount, notifications,
                 newTests, newQuestions, newOptions>>
  /\ IF ~authorize(g, {"supervisor", "admin"})
       THEN Respond(403, "Insufficient permissions") /\ UNCHANGED userSkills
       ELSE /\ userSkills' =
                 Upsert(userSkills,
                        {SkillRow(u, s) : s \in {d.skill_id : d \in SkillsData(u)}})
            /\ Respond(200, "Skills calculated successfully")

\* the requests of the specification of attempts followed by recalculation
SkillSubmitBodies == { <<Ans(3, NULL)>>, <<Ans(1, 1), Ans(2, 3)>> }
SkillGradeCalls ==
  { GradeCall(<<Gr(3, 2, "good")>>, NOTEXT),
    GradeCall(<<Gr(3, 0 - 2, NOTEXT)>>, NOTEXT) }   \* points below zero

NextSkills ==
  \/ NextOf(1, SkillSubmitBodies, SkillGradeCalls, {"none"})
  \/ \E g \in UserIds, u \in UserIds : Recalculate(g, u)
SpecSkills == Init /\ [][NextSkills]_vars

\* ------------------------------ skill calculation over drawn attempt tables
MaxGraded == 2         \* attempts in a drawn attempt table

\* scores a finished attempt can carry: automatic grading of test 1 gives
\* thirds, manual grading any quotient of the grader's points
ScoreSet == {0, 3333, 6000, 8000, 10000}

\* a row of test_attempts after submit (left for review) or after grading
FinishedAttempt(t, n, score) ==
  [NewAttempt(t, 1, n - 1) EXCEPT
     !.status = IF score = NULL THEN "submitted" ELSE "graded",
     !.score = score,
     !.submitted_at = TRUE,
     !.graded_at = score # NULL,
     !.graded_by = IF score = NULL THEN NULL ELSE 3]

\* the attempt tables of the candidate that sequential start, submit and
\* grade calls produce: attempt numbers count up per test, within the quota
AttemptTables ==
  UNION { { [k \in 1..n |->
               FinishedAttempt(tests[k],
                 Cardinality({j \in 1..k : tests[j] = tests[k]}), scores[k])] :
            tests \in {ts \in [1..n -> TestIds] :
                         \A t \in TestIds :
                           Cardinality({j \in 1..n : ts[j] = t}) <= MaxAttemptsOf(t)},
            scores \in [1..n -> ScoreSet \cup {NULL}] } :
          n \in 0..MaxGraded }

InitRecalc ==
  /\ attempts \in AttemptTables
  /\ answers = EmptyBag
  /\ inflight = EmptyBag
  /\ last = NoResponse
  /\ submitCount = [a \in DOMAIN attempts |-> 1]
  /\ notifications = EmptyBag
  /\ newTests = <<>>
  /\ newQuestions = <<>>
  /\ newOptions = <<>>
  /\ userSkills = {}
  /\ InitPlatform

NextRecalc == \E g \in UserIds, u \in UserIds : Recalculate(g, u)
SpecRecalc == InitRecalc /\ [][NextRecalc]_vars

\* ------------------------------------------------------------ GET /:id
\* SELECT id, status, ..., score, attempt_number of the caller's attempts on
\* the test, ORDER BY attempt_number DESC (as a set of rows)
OwnAttempts(u, t) ==
  {[id |-> a, status |-> attempts[a].status, score |-> attempts[a].score,
    attempt_number |-> attempts[a].attempt_number] :
     a \in {x \in DOMAIN attempts :
              attempts[x].test_id = t /\ attempts[x].user_id = u}}

\* res.json({test, questions, attempts, attempts_remaining})
ReadResponse(options, u, t) ==
  [code |-> 200, text |-> "test",
   test |-> Tests[t],
   questions |-> QuestionsWithOptions(options, t),
   attempts |-> OwnAttempts(u, t),
   attempts_remaining |->
     MathMax0(OrDefault(Tests[t].max_attempts, 3) - Cardinality(OwnAttempts(u, t)))]

\* the handler: any authenticated user; 404 when the test does not exist
ReadTest(u, t) ==
  /\ UNCHANGED definitionVars
  /\ UNCHANGED <<attempts, answers, inflight, submitCount, notifications>>
  /\ IF t \notin TestIds
       THEN Respond(404, "Test not found")
       ELSE last' = ReadResponse(Options, u, t)

NextRead ==
  \/ NextOf(1, SkillSubmitBodies, SkillGradeCalls, {"none"})
  \/ \E u \in UserIds, t \in TestIds \cup {NoSuchId} : ReadTest(u, t)
SpecRead == Init /\ [][NextRead]_vars

\* the requests of the specification of repeated questions: a list that
\* names question 1 twice, and a written answer
DupSubmitBodies == { <<Ans(1, 1), Ans(1, 2)>>, <<Ans(3, NULL)>> }
NextDup == NextOf(1, DupSubmitBodies, RaceGradeCalls, {"none"})
SpecDup == Init /\ [][NextDup]_vars

\* the requests of the specification of pass marks: 2 of the 3 points of
\* test 1, every point of test 1, and a written answer
PassSubmitBodies ==
  { <<Ans(1, 2), Ans(2, 3)>>, <<Ans(1, 1), Ans(2, 3)>>, <<Ans(3, NULL)>> }
NextPass == NextOf(1, PassSubmitBodies, RaceGradeCalls, {"none"})
SpecPass == Init /\ [][NextPass]_vars

\* the requests of the specification of partial and misdirected answers: a
\* list covering one of the two questions of test 1, a list selecting for
\* question 1 the correct option of question 2, and a written answer
PartialSubmitBodies == { <<Ans(1, 1)>>, <<Ans(1, 3)>>, <<Ans(3, NULL)>> }
NextPartial == NextOf(1, PartialSubmitBodies, RaceGradeCalls, {"none"})
SpecPartial == Init /\ [][NextPartial]_vars

\* ------------------------------------ POST /clock-in, POST /clock-out
MaxSessions == 3       \* rows of learning_sessions
MaxClockIns == 2       \* clock-in handlers between their SELECT and their INSERT

ClockRoles == {"learner", "candidate"}

\* req.body.reflection_text of a clock-out ("": absent)
Reflections == {"", "notes"}

\* SELECT id FROM learning_sessions WHERE user_id = $1 AND end_time IS NULL
\* (end_time FALSE: NULL)
OpenSessions(table, u) ==
  {i \in DOMAIN table : table[i].user_id = u /\ ~table[i].end_time}

\* INSERT INTO learning_sessions (user_id, start_time)
NewSession(u) == [user_id |-> u, end_time |-> FALSE, reflection_text |-> NOTEXT]

\* First half of clock-in: authorization and the ongoing-session check.  A
\* rejection ends the handler in this step.
ClockInCheck(cap, u) ==
  /\ UNCHANGED <<attempts, answers, inflight, submitCount, notifications,
                 newTests, newQuestions, newOptions, userSkills>>
  /\ UNCHANGED <<sessions, users, enrollments>>
  /\ IF ~authorize(u, ClockRoles)
       THEN Respond(403, "Insufficient permissions") /\ UNCHANGED clockIns
     ELSE IF OpenSessions(sessions, u) # {}
       THEN /\ Respond(400, "Already clocked in. Please clock out first.")
            /\ UNCHANGED clockIns
     ELSE /\ BagCardinality(clockIns) < cap
          /\ Len(sessions) + BagCardinality(clockIns) < MaxSessions
          /\ clockIns' = clockIns (+) SetToBag({u})
          /\ UNCHANGED last

\* Second half of clock-in: the INSERT and the 201 response
ClockInInsert(u) ==
  /\ UNCHANGED <<attempts, answers, inflight, submitCount, notifications,
                 newTests, newQuestions, newOptions, userSkills>>
  /\ UNCHANGED <<users, enrollments>>
  /\ BagIn(u, clockIns)
  /\ clockIns' = clockIns (-) SetToBag({u})
  /\ sessions' = Append(sessions, NewSession(u))
  /\ Respond(201, "Clocked in successfully")

\* clock-out: the open session the SELECT returns (any one when there are
\* several: the query has no ORDER BY) gets its end_time and reflection_text
ClockOut(u, reflection_text) ==
  /\ UNCHANGED <<attempts, answers, inflight, submitCount, notifications,
                 newTests, newQuestions, newOptions, userSkills>>
  /\ UNCHANGED <<clockIns, users, enrollments>>
  /\ IF ~authorize(u, ClockRoles)
       THEN Respond(403, "Insufficient permissions") /\ UNCHANGED sessions
     ELSE IF OpenSessions(sessions, u) = {}
       THEN /\ Respond(400, "No active session found. Please clock in first.")
            /\ UNCHANGED sessions
     ELSE \E i \in OpenSessions(sessions, u) :
            /\ sessions' = [sessions EXCEPT
                 ![i].end_time = TRUE,
                 ![i].reflection_text =
                    IF reflection_text = "" THEN NOTEXT ELSE reflection_text]
            /\ Respond(200, "Clocked out successfully")

NextClock ==
  \/ \E u \in UserIds : ClockInCheck(MaxClockIns, u)
  \/ \E u \in UserIds : ClockInInsert(u)
  \/ \E u \in UserIds, reflection_text \in Reflections : ClockOut(u, reflection_text)
SpecClock == Init /\ [][NextClock]_vars

\* ------------------------------- POST /candidates/:candidateId/migrate
\* the graded attempts of a user: the rows the LEFT JOIN on
\* ta.status = 'graded' brings
GradedAttempts(u) ==
  {a \in DOMAIN attempts :
     attempts[a].user_id = u /\ attempts[a].status = "graded"}

\* ORDER BY ta.score DESC NULLS LAST LIMIT 1: the attempts that can come
\* first (rows of equal score come in either order)
TopAttempts(u) ==
  LET G == GradedAttempts(u)
      S == {a \in G : attempts[a].score # NULL}
  IN  IF S = {} THEN G
      ELSE {a \in S : \A b \in S : attempts[b].score <= attempts[a].score}

\* !score || score < passingScore for the joined row of attempt a
\* (passingScore = candidate.passing_score || 70; the score in hundredths)
NotPassed(a) ==
  \/ attempts[a].score = NULL
  \/ attempts[a].score = 0
  \/ attempts[a].score < 100 * OrDefault(Tests[attempts[a].test_id].passing_score, 70)

\* the notification row that logs a migration
MigrationNotification(c) ==
  [user_id |-> c, notification_type |-> "account_migration", status |-> "accepted"]

\* req.body of a migrate call: new_role and supervisor_id (NULL: absent)
NewRoles == {"learner"}
SupervisorChoices == {NULL, 4}

\* The handler: 404 when the id names no user with role candidate, 400 when
\* the first joined row has not passed, else the UPDATE of users and the
\* INSERT into notifications in one transaction; a statement that fails
\* (fail) ends in the catch block: ROLLBACK and 500
Migrate(g, c, new_role, supervisor_id, fail) ==
  /\ UNCHANGED <<attempts, answers, inflight, submitCount,
                 newTests, newQuestions, newOptions, userSkills>>
  /\ UNCHANGED <<sessions, clockIns, enrollments>>
  /\ IF ~authorize(g, {"admin"})
       THEN Respond(403, "Insufficient permissions")
            /\ UNCHANGED <<users, notifications>>
     ELSE IF fail
       THEN Respond(500, "Failed to migrate candidate")
            /\ UNCHANGED <<users, notifications>>
     ELSE IF c \notin UserIds \/ users[c].role # "candidate"
       THEN Respond(404, "Candidate not found")
            /\ UNCHANGED <<users, notifications>>
     ELSE IF GradedAttempts(c) = {}
       THEN Respond(400, "Candidate has not passed the assessment")
            /\ UNCHANGED <<users, notifications>>
     ELSE \E a \in TopAttempts(c) :
            IF NotPassed(a)
              THEN Respond(400, "Candidate has not passed the assessment")
                   /\ UNCHANGED <<users, notifications>>
              ELSE /\ users' = [users EXCEPT
                         ![c] = [role |-> new_role,
                                 supervisor_id |-> OrDefault(supervisor_id, NULL)]]
                   /\ notifications' =
                        notifications (+) SetToBag({MigrationNotification(c)})
                   /\ Respond(200, "Candidate migrated successfully")

\* GET /candidates/eligible: the users with role candidate joined to a
\* graded attempt with ta.score >= t.passing_score (a NULL on either side
\* is not >=)
EligibleCandidates ==
  {u \in UserIds :
     /\ users[u].role = "candidate"
     /\ \E a \in GradedAttempts(u) :
          /\ attempts[a].score # NULL
          /\ Tests[attempts[a].test_id].passing_score # NULL
          /\ attempts[a].score >= 100 * Tests[attempts[a].test_id].passing_score}

GetEligible(g) ==
  /\ UNCHANGED <<attempts, answers, inflight, submitCount, notifications,
                 newTests, newQuestions, newOptions, userSkills>>
  /\ UNCHANGED platformVars
  /\ IF ~authorize(g, {"admin"})
       THEN Respond(403, "Insufficient permissions")
       ELSE last' = [code |-> 200, text |-> "candidates",
                     candidates |-> EligibleCandidates]

\* scores of the candidate's finished attempts (NULL: left for review)
MigrateScores == {NULL, 0, 5000, 6000, 7000, 10000}

\* the attempt tables of the candidate before the migrate call
CandidateTables ==
  UNION { { [k \in 1..n |->
               FinishedAttempt(tests[k],
                 Cardinality({j \in 1..k : tests[j] = tests[k]}), scores[k])] :
            tests \in {ts \in [1..n -> TestIds] :
                         \A t \in TestIds :
                           Cardinality({j \in 1..n : ts[j] = t}) <= MaxAttemptsOf(t)},
            scores \in [1..n -> MigrateScores] } :
          n \in 0..MaxGraded }

InitMigrate ==
  /\ attempts \in CandidateTables
  /\ answers = EmptyBag
  /\ inflight = EmptyBag
  /\ last = NoResponse
  /\ submitCount = [a \in DOMAIN attempts |-> 1]
  /\ notifications = EmptyBag
  /\ newTests = <<>>
  /\ newQuestions = <<>>
  /\ newOptions = <<>>
  /\ userSkills = {}
  /\ InitPlatform

NextMigrate ==
  \/ \E g \in UserIds, c \in UserIds \cup {NoSuchId}, new_role \in NewRoles,
        supervisor_id \in SupervisorChoices, fail \in BOOLEAN :
       Migrate(g, c, new_role, supervisor_id, fail)
  \/ \E g \in UserIds : GetEligible(g)
SpecMigrate == InitMigrate /\ [][NextMigrate]_vars

\* ------------------------------------------------- PUT /:id/progress
CourseIds == {cs.course_id : cs \in CourseSkills}

\* req.body.progress_percentage
ProgressChoices == {40, 100}

\* The handler: 404 when the user has no enrollment in the course, else the
\* update of progress_percentage and completed_at (a date at 100, else null)
UpdateProgress(u, courseId, progress_percentage) ==
  /\ UNCHANGED <<attempts, answers, inflight, submitCount, notifications,
                 newTests, newQuestions, newOptions, userSkills>>
  /\ UNCHANGED <<sessions, clockIns, users>>
  /\ IF ~authorize(u, {"learner"})
       THEN Respond(403, "Insufficient permissions") /\ UNCHANGED enrollments
     ELSE IF ~\E e \in enrollments : e.user_id = u /\ e.course_id = courseId
       THEN Respond(404, "Enrollment not found") /\ UNCHANGED enrollments
     ELSE /\ enrollments' =
               {IF e.user_id = u /\ e.course_id = courseId
                  THEN [e EXCEPT !.progress_percentage = progress_percentage,
                                 !.completed = (progress_percentage = 100)]
                  ELSE e : e \in enrollments}
          /\ Respond(200, "Progress updated successfully")

\* the attempt tables of the learner (user 2) on the course tests
LearnerTables ==
  {[k \in DOMAIN T |-> [T[k] EXCEPT !.user_id = 2]] : T \in AttemptTables}

InitProgress ==
  /\ attempts \in LearnerTables
  /\ answers = EmptyBag
  /\ inflight = EmptyBag
  /\ last = NoResponse
  /\ submitCount = [a \in DOMAIN attempts |-> 1]
  /\ notifications = EmptyBag
  /\ newTests = <<>>
  /\ newQuestions = <<>>
  /\ newOptions = <<>>
  /\ userSkills = {}
  /\ InitPlatform

NextProgress ==
  \/ \E u \in UserIds, courseId \in CourseIds \cup {NoSuchId},
        progress_percentage \in ProgressChoices :
       UpdateProgress(u, courseId, progress_percentage)
  \/ \E g \in UserIds, u \in UserIds : Recalculate(g, u)
SpecProgress == InitProgress /\ [][NextProgress]_vars

\* =================================================================
\* Properties
\* =================================================================
\* rows of test_answers of attempt a (distinct rows) and their number
RowsOf(a) == {r \in DOMAIN answers : r.attempt_id = a}
RowCount(a) == SumSet(RowsOf(a), answers)

\* attempts of the same test and user as attempt a
SamePair(a) ==
  {b \in DOMAIN attempts : /\ attempts[b].test_id = attempts[a].test_id
                           /\ attempts[b].user_id = attempts[a].user_id}

\* position of a status in in_progress -> submitted -> graded
Rank(status) ==
  CASE status = "in_progress" -> 0
    [] status = "submitted" -> 1
    [] status = "graded" -> 2

\* 100 * e / t rounded to two decimals, in hundredths of a percent
Round2(e, t) ==
  LET q == (10000 * e) \div t
      r == (10000 * e) % t
  IN IF 2 * r >= t THEN q + 1 ELSE q

\* sum over the rows of attempt a, each counted as often as it is stored
Awarded(r) == IF r.points_awarded = NULL THEN 0 ELSE r.points_awarded
Worth(r) == Questions[r.question_id].points
Correct(r) ==
  IF r.selected_option_id \in OptionIds /\ Options[r.selected_option_id].is_correct
    THEN Questions[r.question_id].points ELSE 0
AwardedSum(a) ==
  SumSet(RowsOf(a), [r \in RowsOf(a) |-> answers[r] * Awarded(r)])
WorthSum(a) ==
  SumSet(RowsOf(a), [r \in RowsOf(a) |-> answers[r] * Worth(r)])
CorrectSum(a) ==
  SumSet(RowsOf(a), [r \in RowsOf(a) |-> answers[r] * Correct(r)])

\* C1: for every (test, user) the number of stored attempts is at most the
\* test's max_attempts and every attempt_number is at most max_attempts,
\* however start calls interleave.
C1_QuotaHolds ==
  \A a \in DOMAIN attempts :
    LET M == IF Tests[attempts[a].test_id].max_attempts = NULL THEN 3
             ELSE Tests[attempts[a].test_id].max_attempts
    IN /\ Cardinality(SamePair(a)) <= M
       /\ attempts[a].attempt_number <= M

\* C2: the status of an attempt never moves backwards in
\* in_progress -> submitted -> graded, in any interleaving of start,
\* submit (either route) and grade.
C2_StatusForward ==
  [][\A a \in DOMAIN attempts :
       Rank(attempts'[a].status) >= Rank(attempts[a].status)]_vars

\* C3: of the submit calls racing on one in_progress attempt at most one
\* commits; no attempt is ever written by two submit transactions.
C3_OneSubmitCommits ==
  \A a \in DOMAIN attempts : submitCount[a] <= 1

\* C4: the attempt_number values of one (test, user) pair are exactly 1..k,
\* k the number of its attempts: no gap and no duplicate.
C4_NumbersContiguous ==
  \A a \in DOMAIN attempts :
    {attempts[b].attempt_number : b \in SamePair(a)}
      = 1..Cardinality(SamePair(a))

\* C5: a submit by the owner on an attempt whose status is submitted or
\* graded is answered 400 'Test already submitted', ends there, inserts no
\* answer row and leaves the attempt and its answer rows as they were.
C5_SubmitRejected ==
  [][\A route \in Routes, u \in UserIds, a \in DOMAIN attempts :
       ( /\ attempts[a].status \in {"submitted", "graded"}
         /\ authorize(u, TakerRoles(route))
         /\ attempts[a].user_id = u
         /\ SubmitCheck(MaxInFlight, route, u, a) )
       => /\ last' = [code |-> 400, text |-> "Test already submitted"]
          /\ attempts' = attempts
          /\ answers' = answers
          /\ submitCount' = submitCount
          /\ notifications' = notifications
          /\ inflight' = inflight]_vars

C5_Witness ==
  /\ last = [code |-> 400, text |-> "Test already submitted"]
  /\ Len(attempts) = 1
  /\ attempts[1].status = "graded"
  /\ RowCount(1) > 0

\* C6: on an all-multiple_choice test, a submit that selects an option for
\* every question leaves the attempt graded with score 100 * earned / total
\* (to within rounding), 100 when all are correct and 0 when none is, on
\* either submission route.
AllMultipleChoice(t) ==
  \A q \in QuestionIds :
    Questions[q].test_id = t => Questions[q].question_type = "multiple_choice"
AnswersEveryQuestion(a) ==
  /\ \A q \in QuestionIds :
       Questions[q].test_id = attempts[a].test_id
         => \E r \in RowsOf(a) : r.question_id = q
  /\ \A r \in RowsOf(a) :
       /\ Questions[r.question_id].test_id = attempts[a].test_id
       /\ r.selected_option_id # NULL
       /\ answers[r] = 1
C6_AllMcqGraded ==
  \A a \in DOMAIN attempts :
    ( /\ submitCount[a] = 1
      /\ attempts[a].graded_by = NULL
      /\ AllMultipleChoice(attempts[a].test_id)
      /\ AnswersEveryQuestion(a) )
    => LET E == CorrectSum(a)
           T == WorthSum(a)
           d == attempts[a].score * T - 10000 * E
       IN /\ attempts[a].status = "graded"
          /\ attempts[a].score # NULL
          /\ 2 * d <= 100 * T /\ 2 * d >= -(100 * T)
          /\ (E = T => attempts[a].score = 10000)
          /\ (E = 0 => attempts[a].score = 0)

\* C7: a submit containing a written or coding question, or a
\* multiple_choice question with no selected option, leaves the attempt
\* submitted with score null and those answers with points_awarded null, on
\* either route and whatever the test_type of the test.
NotAutoGradable(r) ==
  \/ Questions[r.question_id].question_type # "multiple_choice"
  \/ r.selected_option_id = NULL
C7_ManualLeftUngraded ==
  \A a \in DOMAIN attempts :
    ( /\ submitCount[a] = 1
      /\ attempts[a].graded_by = NULL
      /\ \A r \in RowsOf(a) :
           Questions[r.question_id].test_id = attempts[a].test_id
      /\ \E r \in RowsOf(a) : NotAutoGradable(r) )
    => /\ attempts[a].status = "submitted"
       /\ attempts[a].score = NULL
       /\ \A r \in RowsOf(a) : NotAutoGradable(r) => r.points_awarded = NULL

\* C8: a grade write on a submitted attempt whose entries award E points over
\* questions worth T sets status graded, score round2(100 E / T), graded_by
\* the grader, graded_at, feedback the overall feedback, and stores each
\* entry's points_awarded and feedback in the answer rows of that attempt
\* and question (and adds or removes no row).
EntryPoints(body) ==
  SumSet(DOMAIN body, [i \in DOMAIN body |-> body[i].points_awarded])
EntryWorth(body) ==
  SumSet(DOMAIN body, [i \in DOMAIN body |-> Questions[body[i].question_id].points])
C8_GradeSetsScore ==
  [][\A h \in BagToSet(inflight), call \in GradeCalls :
       ( /\ h.op = "grade"
         /\ attempts[h.attempt].status = "submitted"
         /\ \A i \in DOMAIN call.answers :
              call.answers[i].question_id \in QuestionIds
         /\ GradeWrite(h, call) )
       => LET a == h.attempt
              E == EntryPoints(call.answers)
              T == EntryWorth(call.answers)
          IN /\ attempts'[a].status = "graded"
             /\ attempts'[a].score = Round2(E, T)
             /\ attempts'[a].graded_by = h.grader
             /\ attempts'[a].graded_at
             /\ attempts'[a].feedback = call.feedback
             /\ BagCardinality(answers') = BagCardinality(answers)
             /\ \A r \in DOMAIN answers', i \in DOMAIN call.answers :
                  (r.attempt_id = a /\ r.question_id = call.answers[i].question_id)
                  => /\ r.points_awarded = call.answers[i].points_awarded
                     /\ r.feedback = call.answers[i].feedback]_vars

C8_Witness ==
  /\ last = [code |-> 200, text |-> "Test graded successfully"]
  /\ \E a \in DOMAIN attempts :
       /\ attempts[a].status = "graded"
       /\ attempts[a].graded_by = 3
       /\ attempts[a].score = 3333
       /\ attempts[a].feedback = "well done"
       /\ \E r \in RowsOf(a) : r.feedback = "good" /\ r.points_awarded = 1

\* C9: a grade by an authorized grader on an attempt that is in_progress or
\* graded, or that an earlier grade call has already graded, is answered
\* 400 'Test not in submitted state', ends there and changes neither the
\* attempt nor any answer row.
C9_GradeRejected ==
  [][\A g \in UserIds, a \in DOMAIN attempts :
       ( /\ \/ attempts[a].status \in {"in_progress", "graded"}
            \/ attempts[a].graded_by # NULL
         /\ authorize(g, GraderRoles)
         /\ GradeCheck(MaxInFlight, g, a) )
       => /\ last' = [code |-> 400, text |-> "Test not in submitted state"]
          /\ attempts' = attempts
          /\ answers' = answers
          /\ notifications' = notifications
          /\ inflight' = inflight]_vars

\* C10: for every graded attempt the points awarded over its answer rows do
\* not exceed the points of the questions those rows reference.
C10_AwardedWithinWorth ==
  \A a \in DOMAIN attempts :
    attempts[a].status = "graded" => AwardedSum(a) <= WorthSum(a)

\* C11: the pending-grading query answers with every attempt that is
\* submitted and awaits manual grading (no score yet), whatever the
\* test_type of its test and whichever route submitted it.
C11_PendingListsSubmitted ==
  [][\A g \in UserIds :
       (authorize(g, GraderRoles) /\ PendingGrading(g))
       => \A a \in DOMAIN attempts :
            (attempts[a].status = "submitted" /\ attempts[a].score = NULL)
            => a \in last'.rows]_vars

\* C12: when the transaction of a submit fails before COMMIT (an answer names
\* a question that does not exist on the learner route, the test row is
\* missing, or the store raises an error), the handler answers 500 and
\* nothing of the submission is persisted: the tables are as before, the
\* attempt has no answer row and is still in_progress.
C12_FailedSubmitPersistsNothing ==
  [][\A h \in BagToSet(inflight), body \in SubmitBodies,
        urlTest \in TestIds \cup {NoSuchId}, fault \in Faults :
       ( /\ h.op = "submit"
         /\ Leave(h)
         /\ FailsInTransaction(h, body, urlTest, fault)
         /\ SubmitWrite(h, body, urlTest, fault) )
       => /\ last' = [code |-> 500, text |-> "Failed to submit test"]
          /\ answers' = answers
          /\ attempts' = attempts
          /\ notifications' = notifications
          /\ attempts'[h.attempt].status = "in_progress"
          /\ \A r \in DOMAIN answers' : r.attempt_id # h.attempt]_vars

C12_Witness ==
  /\ last = [code |-> 500, text |-> "Failed to submit test"]
  /\ Len(attempts) = 1
  /\ attempts[1].status = "in_progress"
  /\ submitCount[1] = 0
  /\ answers = EmptyBag
  /\ inflight = EmptyBag

\* C14: when the notification step that follows the COMMIT of a submit
\* fails, the submission stays: the attempt has the status, score and
\* feedback the transaction wrote and the answer rows it inserted.
C14_NotifyFailureKeepsCommit ==
  [][\A h \in BagToSet(inflight), body \in SubmitBodies,
        urlTest \in TestIds \cup {NoSuchId} :
       ( /\ h.op = "submit"
         /\ Leave(h)
         /\ ~FailsInTransaction(h, body, urlTest, "notify")
         /\ SubmitWrite(h, body, urlTest, "notify") )
       => LET a == h.attempt
              r == AnswerLoop(a, body, TRUE, LoopStart)
              passing == OrDefault(Tests[urlTest].passing_score, 70)
          IN /\ attempts'[a] = CandidateUpdate(attempts[a], passing, r)
             /\ attempts'[a].status \in {"submitted", "graded"}
             /\ attempts'[a].submitted_at
             /\ answers' = answers (+) r.rows
             /\ \A b \in DOMAIN attempts : b # a => attempts'[b] = attempts[b]]_vars

C14_Witness ==
  /\ last = [code |-> 500, text |-> "Failed to submit test"]
  /\ Len(attempts) = 1
  /\ attempts[1].status = "graded"
  /\ attempts[1].feedback = "passed"
  /\ submitCount[1] = 1
  /\ RowCount(1) = 2
  /\ notifications = EmptyBag

\* C13: a create call leaves either the whole tree (the test row, one
\* question row per question of the request, one option row per option of
\* its multiple_choice questions, all tied to the new test) or, when
\* validation or an insert fails, no new row at all.
OptionCount(body) ==
  SumSet(DOMAIN body.questions,
    [i \in DOMAIN body.questions |->
       IF body.questions[i].question_type = "multiple_choice"
          \/ (body.questions[i].question_type = NOTEXT
              /\ body.test_type = "multiple_choice")
         THEN Len(body.questions[i].options) ELSE 0])
WholeTree(body) ==
  LET t == Len(newTests') IN
  /\ Len(newTests') = Len(newTests) + 1
  /\ SubSeq(newTests', 1, Len(newTests)) = newTests
  /\ Len(newQuestions') = Len(newQuestions) + Len(body.questions)
  /\ SubSeq(newQuestions', 1, Len(newQuestions)) = newQuestions
  /\ \A k \in (Len(newQuestions) + 1)..Len(newQuestions') :
       newQuestions'[k].test_id = newTests'[t].id
  /\ Len(newOptions') = Len(newOptions) + OptionCount(body)
  /\ SubSeq(newOptions', 1, Len(newOptions)) = newOptions
  /\ \A k \in (Len(newOptions) + 1)..Len(newOptions') :
       \E j \in (Len(newQuestions) + 1)..Len(newQuestions') :
         newOptions'[k].question_id = newQuestions'[j].id
NoNewRow ==
  /\ newTests' = newTests
  /\ newQuestions' = newQuestions
  /\ newOptions' = newOptions
C13_CreateAllOrNothing ==
  [][\A u \in UserIds, body \in CreateBodies, failAt \in 0..MaxStmts :
       CreateTest(u, body, failAt)
       => /\ WholeTree(body) \/ NoNewRow
          /\ (~ValidCreate(body) \/ failAt \in 1..Len(CreateStmts(body, u)))
             => NoNewRow
          /\ last'.code = 201 <=> WholeTree(body)]_vars

C13_Witness ==
  /\ last = [code |-> 500, text |-> "Failed to create test"]
  /\ Len(newTests) = 1
  /\ Len(newQuestions) = 2
  /\ Len(newOptions) = 2

\* C15: every stored UserSkill.level lies within [0, 5] (0 to 500
\* hundredths), whatever scores the graded attempts carry.
C15_LevelInRange ==
  \A r \in userSkills : 0 <= r.level /\ r.level <= 500

\* C16: a recalculation stores, for each skill linked to a course the user
\* completed, courses_completed = the number of those courses, test_average
\* = the mean over those courses of the user's average graded score (0 for
\* a course without graded attempt) and level = min(5, 5 * (courses_completed
\* * test_average / 100 * 3.5) / 3), each to two decimals; two completed
\* courses with averages 80 and 60 give level 5.00.
CompletedCourses(u, s) ==
  {c \in {cs.course_id : cs \in {x \in CourseSkills : x.skill_id = s}} :
     \E e \in enrollments : e.user_id = u /\ e.course_id = c /\ e.completed}
GradedScores(u, c) ==
  {a \in DOMAIN attempts :
     attempts[a].status = "graded" /\ attempts[a].user_id = u
     /\ CourseOfTest[attempts[a].test_id] = c /\ attempts[a].score # NULL}
ScoreTotal(u, c) ==
  SumSet(GradedScores(u, c), [a \in GradedScores(u, c) |-> attempts[a].score])
ScoreCount(u, c) ==
  IF GradedScores(u, c) = {} THEN 1 ELSE Cardinality(GradedScores(u, c))
RECURSIVE CountProduct(_, _)
CountProduct(u, C) ==
  IF C = {} THEN 1
  ELSE LET c == CHOOSE x \in C : TRUE
       IN ScoreCount(u, c) * CountProduct(u, C \ {c})
\* the mean of the course averages is MeanNum / MeanDen hundredths
MeanNum(u, C) ==
  SumSet(C, [c \in C |-> ScoreTotal(u, c) * CountProduct(u, C \ {c})])
MeanDen(u, C) == Cardinality(C) * CountProduct(u, C)
\* v is num / den to two decimals (v, num in hundredths)
Nearest(v, num, den) ==
  /\ 2 * (v * den - num) <= den
  /\ 2 * (num - v * den) <= den
C16_RecalculateFormula ==
  [][\A g \in UserIds, u \in UserIds :
       (Recalculate(g, u) /\ Role[g] \in {"supervisor", "admin"})
       => \A s \in {cs.skill_id : cs \in CourseSkills} :
            LET C == CompletedCourses(u, s)
                n == Cardinality(C)
                rows == {r \in userSkills' : r.user_id = u /\ r.skill_id = s}
            IN IF C = {} THEN rows = {r \in userSkills : r.user_id = u /\ r.skill_id = s}
               ELSE /\ Cardinality(rows) = 1
                    /\ \A r \in rows :
                         /\ r.courses_completed = n
                         /\ Nearest(r.test_average, MeanNum(u, C), MeanDen(u, C))
                         /\ IF 175 * n * MeanNum(u, C) >= 500 * 3000 * MeanDen(u, C)
                              THEN r.level = 500
                              ELSE Nearest(r.level, 175 * n * MeanNum(u, C),
                                           3000 * MeanDen(u, C))
                         /\ (n = 2 /\ {Rat(ScoreTotal(u, c), ScoreCount(u, c)) : c \in C}
                                        = {Rat(8000, 1), Rat(6000, 1)})
                            => r.level = 500]_vars

C16_Witness ==
  /\ attempts = <<FinishedAttempt(1, 1, 8000), FinishedAttempt(2, 1, 6000)>>
  /\ \E r \in userSkills :
       /\ r.user_id = 1 /\ r.skill_id = 1
       /\ r.courses_completed = 2 /\ r.test_average = 7000 /\ r.level = 500
  /\ \E r \in userSkills :
       /\ r.user_id = 1 /\ r.skill_id = 2
       /\ r.courses_completed = 1 /\ r.test_average = 6000 /\ r.level = 350

\* C17: with no start calls interleaving, a start call of an admitted role
\* goes on to its insert iff the test exists and the user's attempts on it
\* number fewer than max_attempts (3 when absent); the insert adds exactly
\* one attempt, in_progress, numbered count + 1; a refused call adds none.
Quota(t) == IF Tests[t].max_attempts = NULL THEN 3 ELSE Tests[t].max_attempts
Existing(t, u) ==
  Cardinality({a \in DOMAIN attempts :
                 attempts[a].test_id = t /\ attempts[a].user_id = u})
Remark(m) == [o \in OptionIds |-> [Options[o] EXCEPT !.is_correct = m[o]]]
Markings == [OptionIds -> BOOLEAN]
NoCorrectFlag(questions) ==
  \A k \in DOMAIN questions :
    "options" \in DOMAIN questions[k]
      => \A j \in DOMAIN questions[k].options :
           "is_correct" \notin DOMAIN questions[k].options[j]
C18_ResponsesHideMarking ==
  [][/\ \A u \in UserIds, t \in TestIds :
          ReadTest(u, t)
          => /\ \A m \in Markings : last' = ReadResponse(Remark(m), u, t)
             /\ NoCorrectFlag(last'.questions)
     /\ \A h \in BagToSet(inflight) :
          (StartInsert(h) /\ h.route = "C")
          => /\ \A m \in Markings : last' = StartResponse(Remark(m), h)
             /\ NoCorrectFlag(last'.questions)]_vars

C18_Witness ==
  /\ last.code = 200 /\ last.text = "test"
  /\ Len(last.questions) = 2
  /\ Len(last.questions[1].options) = 2
  /\ \E r \in last.attempts : r.status = "graded" /\ r.score = 10000

\* C19: a grade call changes an attempt only when the caller is an admin or
\* the supervisor of the attempt's owner; a call by anyone else is rejected
\* at its check and changes nothing.
MayGrade(g, a) ==
  \/ Role[g] = "admin"
  \/ Role[g] = "supervisor" /\ SupervisorId[attempts[a].user_id] = g
C19_OnlyOwnSupervisorGrades ==
  [][/\ \A g \in UserIds, a \in DOMAIN attempts :
          (GradeCheck(MaxInFlight, g, a) /\ ~MayGrade(g, a))
          => inflight' = inflight /\ last'.code \in {400, 403}
     /\ \A h \in BagToSet(inflight), call \in GradeCalls :
          (GradeWrite(h, call) /\ attempts' # attempts)
          => MayGrade(h.grader, h.attempt)]_vars

\* C20: the answers table holds at most one row per (attempt, question)
\* pair, whatever the submitted lists contain.
PairCount(a, q) ==
  SumSet({r \in DOMAIN answers : r.attempt_id = a /\ r.question_id = q}, answers)
C20_OneRowPerPair ==
  \A a \in DOMAIN attempts, q \in QuestionIds : PairCount(a, q) <= 1

\* C21: a test created with N questions reads back with the same N
\* questions in input order (order_index 0..N-1, same texts) and, for each
\* multiple_choice question, the same option texts in input order
\* (order_index = position in the list); tests created earlier read back as
\* before.
IsMultipleChoice(body, i) ==
  \/ body.questions[i].question_type = "multiple_choice"
  \/ body.questions[i].question_type = NOTEXT /\ body.test_type = "multiple_choice"
SameAsInput(body, read) ==
  /\ Len(read) = Len(body.questions)
  /\ \A i \in DOMAIN body.questions :
       /\ read[i].question_text = body.questions[i].question_text
       /\ read[i].order_index = i - 1
       /\ IsMultipleChoice(body, i)
            => /\ Len(read[i].options) = Len(body.questions[i].options)
               /\ \A j \in DOMAIN body.questions[i].options :
                    /\ read[i].options[j].option_text
                         = body.questions[i].options[j].option_text
                    /\ read[i].options[j].order_index = j - 1
C21_CreateReadRoundTrip ==
  [][\A u \in UserIds, body \in CreateBodies, failAt \in 0..MaxStmts :
       (Role[u] = "admin" /\ ValidCreate(body) /\ CreateTest(u, body, failAt))
       => /\ last'.code = 201
             => SameAsInput(body,
                  QuestionsOfTest(newQuestions', newOptions',
                                  newTests'[Len(newTests')].id))
          /\ \A k \in DOMAIN newTests :
               QuestionsOfTest(newQuestions', newOptions', newTests[k].id)
                 = QuestionsOfTest(newQuestions, newOptions, newTests[k].id)]_vars

C21_Witness ==
  /\ last.code = 200 /\ last.text = "test"
  /\ Len(newTests) = 2
  /\ last.test.id = newTests[2].id
  /\ Len(last.questions) = 2
  /\ last.questions[1].question_text = "first"
  /\ Len(last.questions[1].options) = 2
  /\ last.questions[1].options[1].option_text = "yes"
  /\ last.questions[1].options[2].option_text = "no"
  /\ last.questions[2].question_text = "second"

\* C22: with enrollments, course-skill links and attempts unchanged (they
\* never change under SpecRecalc), a recalculation for a user whose rows an
\* earlier recalculation wrote leaves every UserSkill row as it was and
\* adds none.
RowsOfUser(table, u) == {r \in table : r.user_id = u}
C22_RecalculateIdempotent ==
  [][\A g \in UserIds, u \in UserIds :
       (Recalculate(g, u) /\ RowsOfUser(userSkills, u) # {})
       => /\ attempts' = attempts
          /\ userSkills' = userSkills
          /\ Cardinality(RowsOfUser(userSkills', u))
               = Cardinality({cs.skill_id : cs \in SkillsData(u)})]_vars

C22_Witness ==
  /\ last = [code |-> 200, text |-> "Skills calculated successfully"]
  /\ Cardinality(RowsOfUser(userSkills, 1)) = 2
  /\ Cardinality(RowsOfUser(userSkills, 3)) = 1
  /\ \E r \in userSkills : r.user_id = 1 /\ r.skill_id = 2 /\ r.level = 233

\* C23: the candidate submit reports an attempt as passed (flag of the
\* response, 'passed' notification) exactly when it graded the attempt with
\* a score above the passing_score of the attempt's own test; an attempt
\* left ungraded is not reported as passed.
OwnPassingScore(a) ==
  IF Tests[attempts[a].test_id].passing_score = NULL THEN 70
  ELSE Tests[attempts[a].test_id].passing_score
AbovePassingScore(a) ==
  /\ attempts'[a].status = "graded"
  /\ attempts'[a].score # NULL
  /\ attempts'[a].score > 100 * OwnPassingScore(a)
C23_PassedAgainstOwnTest ==
  [][\A h \in BagToSet(inflight), body \in PassSubmitBodies,
        urlTest \in TestIds \cup {NoSuchId} :
       (SubmitWrite(h, body, urlTest, "none") /\ h.route = "C" /\ last'.code = 200)
       => /\ last'.passed <=> AbovePassingScore(h.attempt)
          /\ \A n \in DOMAIN notifications' :
               notifications'[n] > (IF n \in DOMAIN notifications
                                      THEN notifications[n] ELSE 0)
               => (n.status = "passed" <=> AbovePassingScore(h.attempt))]_vars

\* C24: when a submit grades an attempt with score 100, every question of the
\* attempt's own test has an answer row of that attempt holding the
\* question's full points.
FullyAnswered(a) ==
  \A q \in QuestionIds :
    Questions[q].test_id = attempts'[a].test_id
      => \E r \in DOMAIN answers' :
           /\ r.attempt_id = a
           /\ r.question_id = q
           /\ r.points_awarded = Questions[q].points
C24_FullScoreCoversTest ==
  [][\A h \in BagToSet(inflight), body \in PartialSubmitBodies,
        urlTest \in TestIds \cup {NoSuchId} :
       ( /\ SubmitWrite(h, body, urlTest, "none")
         /\ last'.code = 200
         /\ attempts'[h.attempt].score = 10000 )
       => FullyAnswered(h.attempt)]_vars

\* C25: a submit stores points_awarded = 0 for a multiple_choice answer whose
\* selected option belongs to another question, also when that option is
\* marked correct.
NewRows == {r \in DOMAIN answers' :
              answers'[r] > (IF r \in DOMAIN answers THEN answers[r] ELSE 0)}
C25_OptionOfOwnQuestion ==
  [][\A h \in BagToSet(inflight), body \in PartialSubmitBodies,
        urlTest \in TestIds \cup {NoSuchId} :
       (SubmitWrite(h, body, urlTest, "none") /\ last'.code = 200)
       => \A r \in NewRows :
            ( /\ Questions[r.question_id].question_type = "multiple_choice"
              /\ r.selected_option_id \in OptionIds
              /\ Options[r.selected_option_id].question_id # r.question_id )
            => r.points_awarded = 0]_vars

\* C26: after a grade call commits, the attempt's score is 100 times the sum
\* of points_awarded over the attempt's stored answer rows divided by the
\* sum of the points of the questions of those rows, to two decimals.
C26_ScoreMatchesStoredPoints ==
  [][\A h \in BagToSet(inflight), call \in GradeCalls :
       (GradeWrite(h, call) /\ last'.code = 200)
       => /\ WorthSum(h.attempt)' > 0
          /\ attempts'[h.attempt].score
               = Round2(AwardedSum(h.attempt)', WorthSum(h.attempt)')]_vars

\* C27: whenever the candidate submit answers with an error, nothing of the
\* submission is persisted: the attempt is still in_progress and has no
\* answer row, whether the failure came before COMMIT or in the
\* notification step after it.
C27_ErrorLeavesAttemptOpen ==
  [][\A h \in BagToSet(inflight), body \in SubmitBodies,
        urlTest \in TestIds \cup {NoSuchId}, fault \in Faults :
       ( /\ h.op = "submit"
         /\ Leave(h)
         /\ h.route = "C"
         /\ last' = [code |-> 500, text |-> "Failed to submit test"]
         /\ SubmitWrite(h, body, urlTest, fault) )
       => /\ attempts'[h.attempt].status = "in_progress"
          /\ \A r \in DOMAIN answers' : r.attempt_id # h.attempt]_vars

\* C28: each user has at most one learning session whose end_time is NULL,
\* also when two clock-in calls of the user interleave between the
\* open-session check and the INSERT.
C28_OneOpenSession ==
  \A u \in UserIds : Cardinality(OpenSessions(sessions, u)) <= 1

\* C29: a migrate call on a candidate succeeds exactly when the candidate
\* has a graded attempt whose score is at least the passing_score of that
\* attempt's own test, so every candidate the eligible-candidates query
\* returns is accepted; a rejection leaves users and notifications alone.
HasPassingAttempt(c) ==
  \E a \in GradedAttempts(c) :
    /\ attempts[a].score # NULL
    /\ attempts[a].score >= 100 * Tests[attempts[a].test_id].passing_score

C29_MigrateIffPassed ==
  [][\A g \in UserIds, c \in UserIds, new_role \in NewRoles,
        supervisor_id \in SupervisorChoices :
       ( /\ users[g].role = "admin"
         /\ users[c].role = "candidate"
         /\ Migrate(g, c, new_role, supervisor_id, FALSE) )
       => /\ (last'.code = 200) <=> HasPassingAttempt(c)
          /\ c \in EligibleCandidates => last'.code = 200
          /\ last'.code # 200 => UNCHANGED <<users, notifications>>]_vars

\* C30: after a recalculation commits, the user's UserSkill rows are the
\* rows of exactly the skills linked to a course the user has completed
\* now: no row remains for a skill whose courses are no longer completed.
C30_RowsFollowCompletedCourses ==
  [][\A g \in UserIds, u \in UserIds :
       (Recalculate(g, u) /\ last'.code = 200)
       => {r.skill_id : r \in RowsOfUser(userSkills', u)}
            = {d.skill_id : d \in SkillsData(u)}]_vars
====
